---- MODULE Spec2Model ----
(***************************************************************************)
(* Model of the url-shortener: the webhook service's delivery path and the *)
(* API service's link and webhook handlers that feed it.                   *)
(*                                                                         *)
(* The webhook service (deps/external_webhook_sender.py) keeps one         *)
(* process-wide asyncio Queue and one BoundedSemaphore(5).  POST /send     *)
(* puts a notification on the queue and schedules spawn_worker as a        *)
(* background task; spawn_worker tries to take a permit for 10 ms and, if  *)
(* it gets one, loops: dequeue with a 1 s timeout, POST, repeat; on a      *)
(* dequeue timeout it leaves the loop and releases the permit.             *)
(*                                                                         *)
(* Every await of the coroutine is a step boundary.  The two timeouts are  *)
(* untimed: a timeout may fire whenever the awaited thing is not there.    *)
(***************************************************************************)
EXTENDS Integers, Sequences, FiniteSets, Bags

\* ---------------------------------------------------------------- bounds
\* enqueue calls accepted in one run
MaxEnq == 6

\* requests the API service answers in one run
MaxReq == 3

\* redirect requests that run concurrently in one run
MaxConc == 2

\* worker tasks told apart by name in one run
MaxTasks == 2

\* enqueue calls accepted in a run with named worker tasks
MaxItems == 4

\* ------------------------------------------------------ program constants
\* worker_permits = BoundedSemaphore(5)
NumPermits == 5

Ids == 1..MaxEnq
Slots == 1..MaxConc
TaskIds == 1..MaxTasks

\* destination URLs and JSON bodies a caller of POST /send passes
Urls == {"hookA"}
Bodies == {[action |-> "ping"]}

\* response statuses of the destination; "exc" is a transport exception
Statuses == {"200", "204", "500", "exc"}

\* the API service's data: callers (jwt.sub), link keys, targets, webhook
\* URLs users register, and the countries the location service answers
Users == {"alice", "bob"}
Keys == {"abc", "test"}
RawTargets == {"ex", "ex/", "ex2/"}
Targets == {"ex/", "ex2/"}
Hooks == {"hookA", "hookB"}
Countries == {"ID", "unknown"}

NoUrl == [owner |-> "nobody", target |-> "none"]
NoHook == "none"
NoRequest == [op |-> "none", user |-> "nobody", key |-> "none", status |-> 0,
              owner |-> "nobody", hook |-> NoHook, handoff |-> "none"]

\* a redirect request that has not started
NoRedirect == [pc |-> "idle", key |-> "none", country |-> "none",
               owner |-> "nobody", count |-> 0, handoff |-> "none",
               status |-> 0]

\* what becomes of the hand-off POST to {webhook_host}/send
\* a worker task that is not running
NoTask == [pc |-> "none", item |-> 0, log |-> <<>>]

HandOffs == {"enqueued", "refused"}

VARIABLES
  queue,      \* the module-level Queue: sequence of Webhook, head first
  permits,    \* worker_permits._value
  pending,    \* spawn_worker background tasks added and not yet run
  atGet,      \* workers about to call wait_for(queue.get(), 1.0)
  blocked,    \* workers suspended in queue.get() on an empty queue
  timedOut,   \* workers whose 1 s timer fired and that have not resumed yet
  posting,    \* bag of the `webhook` locals of the workers inside the POST
  accepted,   \* history: the notifications enqueue accepted, in order
  sent,       \* history: sent[i] = the POST requests issued for notification i
  lastStatus, \* history: outcome of the most recent delivery
  warned,     \* history: the most recent delivery called logger.warning
  overlap,    \* history: two workers held a permit at the same time
  sendResp,   \* status of the most recent POST /send response, 0 = none yet
  urls,       \* table urls: key -> [owner, target], or NoUrl
  usages,     \* table url_redirect_usages: <<key, country>> -> count, 0 = no row
  webhooks,   \* table webhooks: user -> url, or NoHook
  requests,   \* requests the API service has answered
  last,       \* history: the most recent API request and its answer
  origin,     \* history: origin[i] = owner whose event produced notification i
  hadHook,    \* history: users that have registered a webhook at some time
  arg,        \* history: the body or query argument of the most recent request
  reqs,       \* redirect requests in progress, per slot
  tasks,      \* the worker tasks by name: position, held item, attempts so far
  okCreates   \* history: okCreates[u, k, t] = creates by u of k -> t answered 201

wvars == <<queue, permits, pending, atGet, blocked, timedOut, posting,
           accepted, sent, lastStatus, warned, overlap, sendResp>>
avars == <<urls, usages, webhooks, requests, last, origin, hadHook, okCreates,
           arg, reqs, tasks>>
vars == <<wvars, avars>>

\* the workers are anonymous tasks running the same coroutine: the model
\* counts them per position instead of naming them
Live == atGet + blocked + timedOut + BagCardinality(posting)
InFlight == BagCardinality(posting)

Init ==
  /\ queue = <<>>
  /\ permits = NumPermits
  /\ pending = 0
  /\ atGet = 0
  /\ blocked = 0
  /\ timedOut = 0
  /\ posting = EmptyBag
  /\ accepted = <<>>
  /\ sent = [i \in Ids |-> <<>>]
  /\ lastStatus = "none"
  /\ warned = FALSE
  /\ overlap = FALSE
  /\ sendResp = 0
  /\ urls = [k \in Keys |-> NoUrl]
  /\ usages = [x \in Keys \X Countries |-> 0]
  /\ webhooks = [u \in Users |-> NoHook]
  /\ requests = 0
  /\ last = NoRequest
  /\ origin = [i \in Ids |-> "nobody"]
  /\ hadHook = {}
  /\ arg = "none"
  /\ reqs = [r \in Slots |-> NoRedirect]
  /\ tasks = [t \in TaskIds |-> NoTask]
  /\ okCreates = [x \in Users \X Keys \X Targets |-> 0]

\* ----------------------------------------------------------------- enqueue
\* variant: a put that inserts at the head
QueuePutFront(q, item) == <<item>> \o q

\* variant: a put that drops a notification equal to a queued one
QueuePutDedup(q, item) ==
  IF \E k \in DOMAIN q : q[k].url = item.url /\ q[k].body = item.body
    THEN q ELSE Append(q, item)

\* queue.put(webhook): the Queue is unbounded, put never blocks
QueuePut(q, item) == Append(q, item)

\* variant: an enqueue that schedules a spawn attempt only when no worker
\* is live
enqueue_spawn_if_idle(url, body) ==
  LET item == [id |-> Len(accepted) + 1, url |-> url, body |-> body] IN
  /\ queue' = QueuePut(queue, item)
  /\ pending' = IF Live = 0 THEN pending + 1 ELSE pending
  /\ accepted' = Append(accepted, item)

\* ExternalWebhookSender.enqueue: put, then add_task(spawn_worker)
enqueue(url, body) ==
  LET item == [id |-> Len(accepted) + 1, url |-> url, body |-> body] IN
  /\ queue' = QueuePut(queue, item)
  /\ pending' = pending + 1
  /\ accepted' = Append(accepted, item)

\* the run's budget of requests that enqueue
MayEnqueue == Len(accepted) < MaxEnq

\* variant: a handler that answers only once a permit is free
send_webhook_waiting(url, body) ==
  /\ MayEnqueue
  /\ permits > 0
  /\ enqueue(url, body)
  /\ sendResp' = 200
  /\ UNCHANGED <<permits, atGet, blocked, timedOut, posting, sent,
                 lastStatus, warned, overlap>>
  /\ UNCHANGED avars

\* POST /send: enqueue, answer 200; the background task runs afterwards
send_webhook(url, body) ==
  /\ MayEnqueue
  /\ enqueue(url, body)
  /\ sendResp' = 200
  /\ UNCHANGED <<permits, atGet, blocked, timedOut, posting, sent,
                 lastStatus, warned, overlap>>
  /\ UNCHANGED avars

\* ------------------------------------------------------------ spawn_worker
\* variant: an acquire that never waits
CanAcquireAlways == TRUE

\* wait_for(worker_permits.acquire(), 0.01) returns only with a permit
CanAcquire == permits > 0

\* the acquire succeeds: the task becomes a worker holding one permit
SpawnAcquire ==
  /\ pending > 0
  /\ CanAcquire
  /\ pending' = pending - 1
  /\ permits' = permits - 1
  /\ atGet' = atGet + 1
  /\ overlap' = (overlap \/ Live > 0)
  /\ UNCHANGED <<queue, blocked, timedOut, posting, accepted, sent,
                 lastStatus, warned>>
  /\ UNCHANGED <<avars, sendResp>>

\* variant: a task that starts working without a permit
SpawnTimeoutStartsWorker ==
  /\ pending > 0
  /\ permits = 0
  /\ pending' = pending - 1
  /\ atGet' = atGet + 1
  /\ UNCHANGED <<queue, permits, blocked, timedOut, posting, accepted,
                 sent, lastStatus, warned, overlap>>
  /\ UNCHANGED <<avars, sendResp>>

\* no permit within 10 ms: TimeoutError, the task returns
SpawnTimeout ==
  /\ pending > 0
  /\ permits = 0
  /\ pending' = pending - 1
  /\ UNCHANGED <<queue, permits, atGet, blocked, timedOut, posting, accepted,
                 sent, lastStatus, warned, overlap>>
  /\ UNCHANGED <<avars, sendResp>>

\* variants: a get that takes the newest item, a get that leaves the item
QueueGetLast(q) == [item |-> q[Len(q)], rest |-> SubSeq(q, 1, Len(q) - 1)]
QueueGetPeek(q) == [item |-> Head(q), rest |-> q]

\* queue.get() on a non-empty queue: the item it returns and what it leaves
QueueGet(q) == [item |-> Head(q), rest |-> Tail(q)]

\* webhook = <the item>: the worker enters the delivery block with it
Dequeue ==
  /\ queue # <<>>
  /\ posting' = posting (+) SetToBag({QueueGet(queue).item})
  /\ queue' = QueueGet(queue).rest

\* variant: a get that waits until no delivery is in flight
WorkerGetSerial ==
  /\ atGet > 0
  /\ InFlight = 0
  /\ atGet' = atGet - 1
  /\ IF queue # <<>>
       THEN Dequeue /\ UNCHANGED blocked
       ELSE blocked' = blocked + 1 /\ UNCHANGED <<queue, posting>>
  /\ UNCHANGED <<permits, pending, timedOut, accepted, sent, lastStatus,
                 warned, overlap>>
  /\ UNCHANGED <<avars, sendResp>>

\* a worker calls wait_for(queue.get(), 1.0): an item is there and is taken
\* at once, or the task suspends on the empty queue
WorkerGet ==
  /\ atGet > 0
  /\ atGet' = atGet - 1
  /\ IF queue # <<>>
       THEN Dequeue /\ UNCHANGED blocked
       ELSE blocked' = blocked + 1 /\ UNCHANGED <<queue, posting>>
  /\ UNCHANGED <<permits, pending, timedOut, accepted, sent, lastStatus,
                 warned, overlap>>
  /\ UNCHANGED <<avars, sendResp>>

\* a suspended getter is woken by a put and takes the head
WorkerWake ==
  /\ blocked > 0
  /\ blocked' = blocked - 1
  /\ Dequeue
  /\ UNCHANGED <<permits, pending, atGet, timedOut, accepted, sent,
                 lastStatus, warned, overlap>>
  /\ UNCHANGED <<avars, sendResp>>

\* variant: a timer that fires although an item is there for the getter
TimerFireEarly ==
  /\ blocked > 0
  /\ blocked' = blocked - 1
  /\ timedOut' = timedOut + 1
  /\ UNCHANGED <<queue, permits, pending, atGet, posting, accepted, sent,
                 lastStatus, warned, overlap>>
  /\ UNCHANGED <<avars, sendResp>>

\* the 1 s timer fires while the task is still suspended on the empty queue:
\* its getter is cancelled and the task is scheduled to resume
TimerFire ==
  /\ blocked > 0
  /\ queue = <<>>
  /\ blocked' = blocked - 1
  /\ timedOut' = timedOut + 1
  /\ UNCHANGED <<queue, permits, pending, atGet, posting, accepted, sent,
                 lastStatus, warned, overlap>>
  /\ UNCHANGED <<avars, sendResp>>

\* variant: an exit that keeps the permit
ReleaseForgotten(p) == p

\* worker_permits.release()
Release(p) == p + 1

\* the task resumes with TimeoutError: break, finally release the permit
WorkerExit ==
  /\ timedOut > 0
  /\ timedOut' = timedOut - 1
  /\ permits' = Release(permits)
  /\ UNCHANGED <<queue, pending, atGet, blocked, posting, accepted, sent,
                 lastStatus, warned, overlap>>
  /\ UNCHANGED <<avars, sendResp>>

\* the request session.post(str(webhook.url), json=webhook.body) issues
PostRequest(item) == [url |-> item.url, body |-> item.body]

\* response.status != 200, or an exception: logger.warning
Warns(status) == status # "200"

\* variant: a transport exception that escapes the loop
AfterDeliveryRaises(status) == IF status = "exc" THEN "exit" ELSE "loop"

\* what the loop does after the delivery block: both the status check and
\* the except clause fall through to the next iteration
AfterDelivery(status) == "loop"

\* variant: a failed POST is issued again for the same item
DeliverWithRetry(item, status) ==
  /\ BagIn(item, posting)
  /\ sent' = [sent EXCEPT ![item.id] = Append(@, PostRequest(item))]
  /\ lastStatus' = status
  /\ warned' = Warns(status)
  /\ IF Warns(status) /\ Len(sent[item.id]) < 2
       THEN UNCHANGED <<posting, atGet>>
       ELSE posting' = posting (-) SetToBag({item}) /\ atGet' = atGet + 1
  /\ UNCHANGED <<queue, permits, pending, blocked, timedOut, accepted, overlap>>
  /\ UNCHANGED <<avars, sendResp>>

\* the POST of a held item completes with a status or raises
Deliver(item, status) ==
  /\ BagIn(item, posting)
  /\ posting' = posting (-) SetToBag({item})
  /\ sent' = [sent EXCEPT ![item.id] = Append(@, PostRequest(item))]
  /\ lastStatus' = status
  /\ warned' = Warns(status)
  /\ IF AfterDelivery(status) = "loop"
       THEN atGet' = atGet + 1 /\ UNCHANGED permits
       ELSE permits' = Release(permits) /\ UNCHANGED atGet
  /\ UNCHANGED <<queue, pending, blocked, timedOut, accepted, overlap>>
  /\ UNCHANGED <<avars, sendResp>>

Delivery == \E item \in BagToSet(posting), s \in Statuses : Deliver(item, s)

WorkerStep ==
  \/ WorkerGet
  \/ WorkerWake
  \/ TimerFire
  \/ WorkerExit
  \/ Delivery

Next ==
  \/ \E u \in Urls, b \in Bodies : send_webhook(u, b)
  \/ SpawnAcquire
  \/ SpawnTimeout
  \/ WorkerStep

Spec == Init /\ [][Next]_vars

\* ------------------------------------------------------------ API service
\* str(HttpUrl(raw)): a URL without a path gets the path "/"; "ex" and
\* "hookB" stand for URLs without a path, the others have one
HttpUrlStr(raw) ==
  IF raw = "ex" THEN "ex/" ELSE IF raw = "hookB" THEN "hookB/" ELSE raw

\* WebhookSender.link_clicked / link_created / link_deleted / link_updated:
\* the JSON body of the notification
link_clicked(key) == [action |-> "redirect", key |-> key]
link_created(key, target) == [action |-> "created", key |-> key, target |-> target]
link_deleted(key, target) == [action |-> "deleted", key |-> key, target |-> target]
\* variant: an update that announces itself as "updated"
link_updated_renamed(key, target) ==
  [action |-> "updated", key |-> key, new_target |-> target]
link_updated(key, target) == [action |-> "deleted", key |-> key, new_target |-> target]

\* variant: a lookup that takes any registered webhook
HookForAnyone(user) ==
  IF \E u \in Users : webhooks[u] # NoHook
    THEN webhooks[CHOOSE u \in Users : webhooks[u] # NoHook]
    ELSE NoHook

\* session.get_one(Webhook, user); NoResultFound is NoHook
HookFor(user) == webhooks[user]

\* WebhookSender._send: no webhook, return; else POST {url, body} to
\* {webhook_host}/send, where send_webhook enqueues it; a failed hand-off is
\* logged and dropped
WebhookSend(user, body, handoff) ==
  IF HookFor(user) # NoHook /\ handoff = "enqueued"
    THEN /\ enqueue(HookFor(user), body)
         /\ origin' = [origin EXCEPT ![Len(accepted) + 1] = user]
         /\ sendResp' = 200
    ELSE UNCHANGED <<queue, pending, accepted, origin, sendResp>>

HandOffOf(user, handoff) == IF HookFor(user) = NoHook THEN "none" ELSE handoff

\* variant: a refused hand-off fails the request
AnswerFailsOnRefusal(op, user, key, status, owner, handoff) ==
  /\ requests' = requests + 1
  /\ last' = [op |-> op, user |-> user, key |-> key,
              status |-> IF handoff = "refused" THEN 500 ELSE status,
              owner |-> owner,
              hook |-> IF owner \in Users THEN HookFor(owner) ELSE NoHook,
              handoff |-> handoff]

\* the response of a handler, as the client sees it
Answer(op, user, key, status, owner, handoff) ==
  /\ requests' = requests + 1
  /\ last' = [op |-> op, user |-> user, key |-> key, status |-> status,
              owner |-> owner,
              hook |-> IF owner \in Users THEN HookFor(owner) ELSE NoHook,
              handoff |-> handoff]

MayRequest == requests < MaxReq /\ Len(accepted) < MaxEnq

WorkersUnchanged ==
  UNCHANGED <<permits, atGet, blocked, timedOut, posting, sent, lastStatus,
              warned, overlap, tasks>>

\* variant: a create that replaces an existing row
create_url_upsert(user, key, raw, handoff) ==
  LET target == HttpUrlStr(raw) IN
  /\ MayRequest
  /\ WebhookSend(user, link_created(key, target), handoff)
  /\ urls' = [urls EXCEPT ![key] = [owner |-> user, target |-> target]]
  /\ okCreates' = [okCreates EXCEPT ![<<user, key, target>>] = @ + 1]
  /\ Answer("create", user, key, 201, user, HandOffOf(user, handoff))
  /\ arg' = raw
  /\ UNCHANGED <<usages, webhooks, hadHook, reqs>>
  /\ WorkersUnchanged

\* POST /urls: the new row is added to the session, link_created runs, and
\* the INSERT is flushed when the transaction commits: a duplicate key
\* raises IntegrityError there, answered 409
create_url(user, key, raw, handoff) ==
  LET target == HttpUrlStr(raw)
      exists == urls[key] # NoUrl IN
  /\ MayRequest
  /\ WebhookSend(user, link_created(key, target), handoff)
  /\ urls' = IF exists THEN urls
             ELSE [urls EXCEPT ![key] = [owner |-> user, target |-> target]]
  /\ okCreates' = IF exists THEN okCreates
                  ELSE [okCreates EXCEPT ![<<user, key, target>>] = @ + 1]
  /\ Answer("create", user, key, IF exists THEN 409 ELSE 201, user,
            HandOffOf(user, handoff))
  /\ arg' = raw
  /\ UNCHANGED <<usages, webhooks, hadHook, reqs>>
  /\ WorkersUnchanged

\* where(Url.key == key).where(Url.owner == jwt.sub) matches a row
OwnsAny(user, key) == urls[key] # NoUrl
Owns(user, key) == urls[key] # NoUrl /\ urls[key].owner = user

\* rows of url_redirect_usages that reference the key
HasUsage(key) == \E c \in Countries : usages[<<key, c>>] > 0

\* an open redirect transaction has written a usage row that references the
\* key: its foreign key locks the urls row until it commits
FkLocked(key) ==
  \E r \in Slots : reqs[r].pc \in {"counted", "notified"} /\ reqs[r].key = key

\* DELETE /urls/{key}: delete where key and owner match, returning the row;
\* no row is 404; a row still referenced by url_redirect_usages violates the
\* foreign key and the statement raises
delete_url(user, key, handoff) ==
  LET found == Owns(user, key) IN
  /\ MayRequest
  /\ ~FkLocked(key)
  /\ IF found /\ ~HasUsage(key)
       THEN /\ urls' = [urls EXCEPT ![key] = NoUrl]
            /\ WebhookSend(user, link_deleted(key, urls[key].target), handoff)
            /\ Answer("delete", user, key, 200, user, HandOffOf(user, handoff))
       ELSE /\ UNCHANGED <<urls, queue, pending, accepted, origin, sendResp>>
            /\ Answer("delete", user, key, IF found THEN 500 ELSE 404,
                      "nobody", "none")
  /\ arg' = "none"
  /\ UNCHANGED <<usages, webhooks, hadHook, okCreates, reqs>>
  /\ WorkersUnchanged

\* PATCH /urls/{key}: update where key and owner match, returning the row
update_url(user, key, raw, handoff) ==
  LET target == HttpUrlStr(raw)
      found == Owns(user, key) IN
  /\ MayRequest
  /\ IF found
       THEN /\ urls' = [urls EXCEPT ![key].target = target]
            /\ WebhookSend(user, link_updated(key, target), handoff)
            /\ Answer("update", user, key, 200, user, HandOffOf(user, handoff))
       ELSE /\ UNCHANGED <<urls, queue, pending, accepted, origin, sendResp>>
            /\ Answer("update", user, key, 404, "nobody", "none")
  /\ arg' = raw
  /\ UNCHANGED <<usages, webhooks, hadHook, okCreates, reqs>>
  /\ WorkersUnchanged

\* variant: a redirect that counts the visit before it looks the link up
redirect_count_first(key, country, handoff) ==
  LET found == urls[key] # NoUrl
      owner == urls[key].owner IN
  /\ MayRequest
  /\ usages' = [usages EXCEPT ![<<key, country>>] = @ + 1]
  /\ IF found
       THEN /\ WebhookSend(owner, link_clicked(key), handoff)
            /\ Answer("redirect", "nobody", key, 308, owner,
                      HandOffOf(owner, handoff))
       ELSE /\ UNCHANGED <<queue, pending, accepted, origin, sendResp>>
            /\ Answer("redirect", "nobody", key, 404, "nobody", "none")
  /\ arg' = country
  /\ UNCHANGED <<urls, webhooks, hadHook, okCreates, reqs>>
  /\ WorkersUnchanged

\* GET /redirect/{key}: no authentication; count the visit for the country
\* the location service answered, notify the owner, answer 308
redirect(key, country, handoff) ==
  LET found == urls[key] # NoUrl
      owner == urls[key].owner IN
  /\ MayRequest
  /\ IF found
       THEN /\ usages' = [usages EXCEPT ![<<key, country>>] = @ + 1]
            /\ WebhookSend(owner, link_clicked(key), handoff)
            /\ Answer("redirect", "nobody", key, 308, owner,
                      HandOffOf(owner, handoff))
       ELSE /\ UNCHANGED <<usages, queue, pending, accepted, origin, sendResp>>
            /\ Answer("redirect", "nobody", key, 404, "nobody", "none")
  /\ arg' = country
  /\ UNCHANGED <<urls, webhooks, hadHook, okCreates, reqs>>
  /\ WorkersUnchanged

\* what the IP service may answer: a country, a body without one (a
\* reserved address), or a refusal that still carries a body
IpResponses ==
  { [status |-> 200, body |-> [country |-> "ID"]],
    [status |-> 200, body |-> [bogon |-> "true"]],
    [status |-> 429, body |-> [country |-> "ID"]],
    [status |-> 404, body |-> [error |-> "wrong ip"]] }

\* the X-Forwarded-For header and the peer address of a request, when known
ForwardedFor == {"none", "10.0.0.1"}
ClientHosts == {"none", "10.0.0.2"}

\* variant: the body is read whatever the status
get_country_any_status(ip, response) ==
  IF "country" \notin DOMAIN response.body THEN "unknown"
  ELSE response.body.country

\* LocationService.get_country: the country of the response to
\* GET ipinfo.io/{ip}, "unknown" for a status other than 200 and for a body
\* without a country
get_country(ip, response) ==
  IF response.status # 200 THEN "unknown"
  ELSE IF "country" \notin DOMAIN response.body THEN "unknown"
  ELSE response.body.country

\* the country a redirect is counted under: the look-up of the forwarded
\* address, else of the peer address, "unknown" when the request has neither
CountryOf(forwarded, client, response) ==
  LET ip == IF forwarded = "none" THEN client ELSE forwarded IN
  IF ip # "none" THEN get_country(ip, response) ELSE "unknown"

\* GET /redirect/{key} as it arrives: the address is looked up first
redirect_from(key, forwarded, client, response, handoff) ==
  redirect(key, CountryOf(forwarded, client, response), handoff)

\* usages.sort(key=lambda i: i.country): "ID" sorts before "unknown"
CountryRank == [ID |-> 1, unknown |-> 2]

RECURSIVE SortByCountry(_)
SortByCountry(S) ==
  IF S = {} THEN <<>>
  ELSE LET c == CHOOSE x \in S : \A y \in S : CountryRank[x] <= CountryRank[y]
       IN <<c>> \o SortByCountry(S \ {c})

\* GET /urls/{key}/statistic: the caller's link with its usage rows sorted
\* by country, or 404
get_url_statistic(user, key) ==
  IF ~Owns(user, key) THEN [status |-> 404, data |-> <<>>]
  ELSE LET cs == SortByCountry({c \in Countries : usages[<<key, c>>] > 0}) IN
       [status |-> 200,
        data |-> [i \in 1..Len(cs) |->
                   [country |-> cs[i], count |-> usages[<<key, cs[i]>>]]]]

\* variant: insert, on conflict keep the user's row
set_webhook_keep(user, hook) ==
  /\ MayRequest
  /\ webhooks' = IF webhooks[user] = NoHook
                   THEN [webhooks EXCEPT ![user] = HttpUrlStr(hook)]
                   ELSE webhooks
  /\ hadHook' = hadHook \cup {user}
  /\ Answer("set_webhook", user, "none", 200, "nobody", "none")
  /\ arg' = hook
  /\ UNCHANGED <<urls, usages, okCreates, queue, pending, accepted, origin,
                 sendResp, reqs>>
  /\ WorkersUnchanged

\* POST /webhooks: insert, on conflict update the user's row
set_webhook(user, hook) ==
  /\ MayRequest
  /\ webhooks' = [webhooks EXCEPT ![user] = HttpUrlStr(hook)]
  /\ hadHook' = hadHook \cup {user}
  /\ Answer("set_webhook", user, "none", 200, "nobody", "none")
  /\ arg' = hook
  /\ UNCHANGED <<urls, usages, okCreates, queue, pending, accepted, origin,
                 sendResp, reqs>>
  /\ WorkersUnchanged

\* variant: DELETE /webhooks answers 404 when the user has no row
delete_webhook_strict(user) ==
  /\ MayRequest
  /\ webhooks' = [webhooks EXCEPT ![user] = NoHook]
  /\ Answer("delete_webhook", user, "none",
            IF webhooks[user] = NoHook THEN 404 ELSE 200, "nobody", "none")
  /\ arg' = "none"
  /\ UNCHANGED <<urls, usages, okCreates, hadHook, queue, pending, accepted,
                 origin, sendResp, reqs>>
  /\ WorkersUnchanged

\* variant: a delete that also withdraws the user's queued notifications
delete_webhook_purge(user) ==
  /\ MayRequest
  /\ webhooks' = [webhooks EXCEPT ![user] = NoHook]
  /\ queue' = SelectSeq(queue, LAMBDA x : origin[x.id] # user)
  /\ Answer("delete_webhook", user, "none", 200, "nobody", "none")
  /\ arg' = "none"
  /\ UNCHANGED <<urls, usages, okCreates, hadHook, pending, accepted,
                 origin, sendResp, reqs>>
  /\ WorkersUnchanged

\* DELETE /webhooks: delete the user's row if there is one
delete_webhook(user) ==
  /\ MayRequest
  /\ webhooks' = [webhooks EXCEPT ![user] = NoHook]
  /\ Answer("delete_webhook", user, "none", 200, "nobody", "none")
  /\ arg' = "none"
  /\ UNCHANGED <<urls, usages, okCreates, hadHook, queue, pending, accepted,
                 origin, sendResp, reqs>>
  /\ WorkersUnchanged

\* ---------------------------------- GET /redirect/{key}, one await at a time
\* the steps of the redirect handlers that run concurrently
RedirectFrame ==
  /\ UNCHANGED <<urls, webhooks, requests, last, hadHook, okCreates, arg>>
  /\ WorkersUnchanged

\* get_country, then session.get_one(Url, key): the row is loaded, or
\* NoResultFound is answered 404.  Slots start in order
RedirectLookup(r, key, country) ==
  /\ reqs[r].pc = "idle"
  /\ \A q \in Slots : q < r => reqs[q].pc # "idle"
  /\ reqs' = [reqs EXCEPT ![r] =
       IF urls[key] = NoUrl
         THEN [@ EXCEPT !.pc = "done", !.key = key, !.country = country,
                        !.status = 404]
         ELSE [@ EXCEPT !.pc = "found", !.key = key, !.country = country,
                        !.owner = urls[key].owner]]
  /\ UNCHANGED <<usages, queue, pending, accepted, origin, sendResp>>
  /\ RedirectFrame

\* variant: an upsert that does not wait for the row
RowLockedNever(r, key, country) == FALSE

\* another open transaction has inserted or updated the (key, country) row
RowLocked(r, key, country) ==
  \E q \in Slots \ {r} :
    /\ reqs[q].pc \in {"counted", "notified"}
    /\ reqs[q].key = key /\ reqs[q].country = country

\* insert ... on conflict do update set count = count + 1: waits for the
\* row, then writes the new count inside the transaction; the foreign key
\* fails if the urls row has been deleted since the lookup
RedirectCount(r) ==
  LET k == reqs[r].key
      c == reqs[r].country IN
  /\ reqs[r].pc = "found"
  /\ ~RowLocked(r, k, c)
  /\ reqs' = [reqs EXCEPT ![r] =
       IF urls[k] = NoUrl
         THEN [@ EXCEPT !.pc = "done", !.status = 500]
         ELSE [@ EXCEPT !.pc = "counted", !.count = usages[<<k, c>>] + 1]]
  /\ UNCHANGED <<usages, queue, pending, accepted, origin, sendResp>>
  /\ RedirectFrame

\* webhook_sender.link_clicked(url) with the row loaded at the lookup
RedirectNotify(r, handoff) ==
  /\ reqs[r].pc = "counted"
  /\ Len(accepted) < MaxEnq
  /\ WebhookSend(reqs[r].owner, link_clicked(reqs[r].key), handoff)
  /\ reqs' = [reqs EXCEPT ![r].pc = "notified",
                          ![r].handoff = HandOffOf(reqs[r].owner, handoff)]
  /\ UNCHANGED usages
  /\ RedirectFrame

\* the transaction commits and the 308 is answered
RedirectCommit(r) ==
  /\ reqs[r].pc = "notified"
  /\ usages' = [usages EXCEPT ![<<reqs[r].key, reqs[r].country>>] = reqs[r].count]
  /\ reqs' = [reqs EXCEPT ![r].pc = "done", ![r].status = 308]
  /\ UNCHANGED <<queue, pending, accepted, origin, sendResp>>
  /\ RedirectFrame

RedirectStep ==
  \/ \E r \in Slots, c \in Countries : RedirectLookup(r, "test", c)
  \/ \E r \in Slots : RedirectCount(r)
  \/ \E r \in Slots, h \in HandOffs : RedirectNotify(r, h)
  \/ \E r \in Slots : RedirectCommit(r)

\* order_by(Url.key): "abc" sorts before "test"
KeyRank == [abc |-> 1, test |-> 2]

RECURSIVE OrderByKey(_)
OrderByKey(S) ==
  IF S = {} THEN <<>>
  ELSE LET k == CHOOSE x \in S : \A y \in S : KeyRank[x] <= KeyRank[y] IN
       <<k>> \o OrderByKey(S \ {k})

\* UrlObject(key=url.key, target=HttpUrl(url.target)), as serialised
url_object_from_database(key) ==
  [key |-> key, target |-> HttpUrlStr(urls[key].target)]

\* variant: a listing without the owner filter
get_all_url_everyone(user) ==
  LET keys == OrderByKey({k \in Keys : urls[k] # NoUrl})
  IN [i \in 1..Len(keys) |-> url_object_from_database(keys[i])]

\* GET /urls: the caller's rows ordered by key
get_all_url(user) ==
  LET keys == OrderByKey({k \in Keys : urls[k] # NoUrl /\ urls[k].owner = user})
  IN [i \in 1..Len(keys) |-> url_object_from_database(keys[i])]

\* GET /webhooks: the caller's row, or 404
get_webhook(user) ==
  IF webhooks[user] = NoHook
    THEN [status |-> 404, url |-> NoHook]
    ELSE [status |-> 200, url |-> HttpUrlStr(webhooks[user])]

\* variant: n_user counts the owner of every row
statistic_per_row ==
  LET rows == {k \in Keys : urls[k] # NoUrl}
  IN [n_links |-> Cardinality(rows), n_user |-> Cardinality(rows)]

\* GET /statistic: select count(key), count(distinct owner) from urls
statistic ==
  LET rows == {k \in Keys : urls[k] # NoUrl}
  IN [n_links |-> Cardinality(rows),
      n_user |-> Cardinality({urls[k].owner : k \in rows})]

ApiRequest ==
  \/ \E u \in Users, k \in Keys, t \in RawTargets, h \in HandOffs :
       create_url(u, k, t, h)
  \/ \E u \in Users, k \in Keys, h \in HandOffs : delete_url(u, k, h)
  \/ \E u \in Users, k \in Keys, t \in RawTargets, h \in HandOffs :
       update_url(u, k, t, h)
  \/ \E k \in Keys, f \in ForwardedFor, c \in ClientHosts, r \in IpResponses,
        h \in HandOffs : redirect_from(k, f, c, r, h)
  \/ \E u \in Users, h \in Hooks : set_webhook(u, h)
  \/ \E u \in Users : delete_webhook(u)

\* the API service and the webhook service together.  At most MaxReq
\* notifications are handed off, fewer than there are permits, so the
\* acquire of a spawn attempt never times out here
ApiNext ==
  \/ ApiRequest
  \/ SpawnAcquire
  \/ WorkerStep

ApiSpec == Init /\ [][ApiNext]_vars

\* concurrent redirects of the key "test" next to the requests that create
\* and delete that link and set webhooks; the notifications stay queued
ConcNext ==
  \/ \E u \in Users : set_webhook(u, "hookA")
  \/ \E u \in Users, h \in HandOffs : create_url(u, "test", "ex/", h)
  \/ \E u \in Users, h \in HandOffs : delete_url(u, "test", h)
  \/ RedirectStep

ConcSpec == Init /\ [][ConcNext]_vars

\* ------------------------------------------------------- authentication
\* what a request carries in its Authorization header: nothing, a string
\* that is no JWT, a JWT that fails verification, or a user's valid JWT
Credentials == {"none", "garbage", "expired", "tokenAlice", "tokenBob"}

\* the subject of a valid token
Subject(cred) == IF cred = "tokenAlice" THEN "alice" ELSE "bob"

\* HTTPBearer(): a request without bearer credentials is refused with 403
HTTPBearer(cred) == IF cred = "none" THEN 403 ELSE 200

\* variant: a token that fails verification is taken as alice's
verify_token_lenient(cred) ==
  IF HTTPBearer(cred) # 200 THEN [status |-> 403, sub |-> "nobody"]
  ELSE IF cred = "garbage" THEN [status |-> 403, sub |-> "nobody"]
  ELSE IF cred = "expired" THEN [status |-> 200, sub |-> "alice"]
  ELSE [status |-> 200, sub |-> Subject(cred)]

\* the dependency of every authenticated endpoint: the signing key lookup
\* fails for a string that is no JWT, jwt.decode fails for a token with a
\* bad signature, audience, issuer or expiry; both raise
\* UnauthorizedException (403)
verify_token(cred) ==
  IF HTTPBearer(cred) # 200 THEN [status |-> 403, sub |-> "nobody"]
  ELSE IF cred = "garbage" THEN [status |-> 403, sub |-> "nobody"]
  ELSE IF cred = "expired" THEN [status |-> 403, sub |-> "nobody"]
  ELSE [status |-> 200, sub |-> Subject(cred)]

\* the response when the dependency raises: the handler does not run
Rejected(op, status) ==
  /\ MayRequest
  /\ Answer(op, "nobody", "none", status, "nobody", "none")
  /\ arg' = "none"
  /\ UNCHANGED <<urls, usages, webhooks, okCreates, hadHook, queue, pending,
                 accepted, origin, sendResp, reqs>>
  /\ WorkersUnchanged

\* a handler that only reads: GET /urls, GET /urls/{key}/statistic,
\* GET /urls/suggest and GET /webhooks
Read(op, user, key, status) ==
  /\ MayRequest
  /\ Answer(op, user, key, status, "nobody", "none")
  /\ arg' = "none"
  /\ UNCHANGED <<urls, usages, webhooks, okCreates, hadHook, queue, pending,
                 accepted, origin, sendResp, reqs>>
  /\ WorkersUnchanged

\* the endpoints declared with Security(verify_token)
SecuredOps == {"create", "delete", "update", "list", "statistic", "suggest",
               "get_webhook", "set_webhook", "delete_webhook"}

\* the handlers of the authenticated endpoints, run with the token's subject
Handlers(u) ==
  \/ \E k \in Keys, t \in RawTargets, h \in HandOffs : create_url(u, k, t, h)
  \/ \E k \in Keys, h \in HandOffs : delete_url(u, k, h)
  \/ \E k \in Keys, t \in RawTargets, h \in HandOffs : update_url(u, k, t, h)
  \/ Read("list", u, "none", 200)
  \/ \E k \in Keys : Read("statistic", u, k, get_url_statistic(u, k).status)
  \/ Read("suggest", u, "none", 200)
  \/ Read("get_webhook", u, "none", get_webhook(u).status)
  \/ \E h \in Hooks : set_webhook(u, h)
  \/ delete_webhook(u)

\* a request to one of the authenticated endpoints with the credentials:
\* the handler runs with the token's subject, or the request is answered by
\* the dependency and the handler does not run
AuthRequest(cred) ==
  IF verify_token(cred).status # 200
    THEN \E op \in SecuredOps : Rejected(op, verify_token(cred).status)
    ELSE Handlers(verify_token(cred).sub)

AuthNext == \E cred \in Credentials : AuthRequest(cred)

\* the authenticated endpoints, called with and without valid credentials
AuthSpec == Init /\ [][AuthNext]_vars

\* the events of one link and the webhook registry, with the workers that
\* deliver what was handed off
HookNext ==
  \/ \E u \in Users, h \in Hooks : set_webhook(u, h)
  \/ \E u \in Users : delete_webhook(u)
  \/ \E u \in Users, h \in HandOffs : create_url(u, "test", "ex/", h)
  \/ \E u \in Users, h \in HandOffs : delete_url(u, "test", h)
  \/ SpawnAcquire
  \/ WorkerStep

HookSpec == Init /\ [][HookNext]_vars

\* the API service alone: requests are answered, the queued notifications
\* wait
CrudSpec == Init /\ [][ApiRequest]_vars


\* variant: a cancelled worker that skips its finally clause
WorkerCancelledKeepsPermit ==
  /\ \/ /\ blocked > 0
        /\ blocked' = blocked - 1
        /\ UNCHANGED posting
     \/ \E item \in BagToSet(posting) :
          /\ posting' = posting (-) SetToBag({item})
          /\ UNCHANGED blocked
  /\ UNCHANGED <<queue, permits, pending, atGet, timedOut, accepted, sent,
                 lastStatus, warned, overlap>>
  /\ UNCHANGED <<avars, sendResp>>

\* the task of a worker is cancelled at one of its awaits (the server shuts
\* down): CancelledError is no Exception, it leaves the loop from the get or
\* from the POST, whose item is dropped, and the finally clause releases
WorkerCancelled ==
  /\ \/ /\ blocked > 0
        /\ blocked' = blocked - 1
        /\ UNCHANGED posting
     \/ \E item \in BagToSet(posting) :
          /\ posting' = posting (-) SetToBag({item})
          /\ UNCHANGED blocked
  /\ permits' = Release(permits)
  /\ UNCHANGED <<queue, pending, atGet, timedOut, accepted, sent,
                 lastStatus, warned, overlap>>
  /\ UNCHANGED <<avars, sendResp>>

CancelNext == Next \/ WorkerCancelled

\* the webhook service with workers that may be cancelled
CancelSpec == Init /\ [][CancelNext]_vars

\* ------------------------------------------- the worker tasks, by name
\* the same coroutine as above with each task told apart: tasks[t].log is
\* the sequence of notifications task t has attempted since it started
ApiUnchanged ==
  UNCHANGED <<urls, usages, webhooks, requests, last, origin, hadHook,
              okCreates, arg, reqs>>

\* the acquire succeeds: task t becomes a worker holding one permit
TaskSpawn(t) ==
  /\ pending > 0
  /\ CanAcquire
  /\ tasks[t].pc = "none"
  /\ \A q \in TaskIds : q < t => tasks[q].pc # "none"
  /\ pending' = pending - 1
  /\ permits' = permits - 1
  /\ atGet' = atGet + 1
  /\ overlap' = (overlap \/ Live > 0)
  /\ tasks' = [tasks EXCEPT ![t] = [pc |-> "get", item |-> 0, log |-> <<>>]]
  /\ UNCHANGED <<queue, blocked, timedOut, posting, accepted, sent,
                 lastStatus, warned, sendResp>>
  /\ ApiUnchanged

\* task t calls wait_for(queue.get(), 1.0)
TaskGet(t) ==
  /\ tasks[t].pc = "get"
  /\ atGet' = atGet - 1
  /\ IF queue # <<>>
       THEN /\ Dequeue
            /\ tasks' = [tasks EXCEPT ![t].pc = "post",
                                      ![t].item = QueueGet(queue).item.id]
            /\ UNCHANGED blocked
       ELSE /\ blocked' = blocked + 1
            /\ tasks' = [tasks EXCEPT ![t].pc = "wait"]
            /\ UNCHANGED <<queue, posting>>
  /\ UNCHANGED <<permits, pending, timedOut, accepted, sent, lastStatus,
                 warned, overlap, sendResp>>
  /\ ApiUnchanged

\* the suspended getter of task t is woken by a put and takes the head
TaskWake(t) ==
  /\ tasks[t].pc = "wait"
  /\ blocked' = blocked - 1
  /\ Dequeue
  /\ tasks' = [tasks EXCEPT ![t].pc = "post",
                            ![t].item = QueueGet(queue).item.id]
  /\ UNCHANGED <<permits, pending, atGet, timedOut, accepted, sent,
                 lastStatus, warned, overlap, sendResp>>
  /\ ApiUnchanged

\* the 1 s timer of task t fires while it is suspended on the empty queue
TaskTimer(t) ==
  /\ tasks[t].pc = "wait"
  /\ queue = <<>>
  /\ blocked' = blocked - 1
  /\ timedOut' = timedOut + 1
  /\ tasks' = [tasks EXCEPT ![t].pc = "timeout"]
  /\ UNCHANGED <<queue, permits, pending, atGet, posting, accepted, sent,
                 lastStatus, warned, overlap, sendResp>>
  /\ ApiUnchanged

\* task t resumes with TimeoutError: break, finally release the permit
TaskExit(t) ==
  /\ tasks[t].pc = "timeout"
  /\ timedOut' = timedOut - 1
  /\ permits' = Release(permits)
  /\ tasks' = [tasks EXCEPT ![t].pc = "none"]
  /\ UNCHANGED <<queue, pending, atGet, blocked, posting, accepted, sent,
                 lastStatus, warned, overlap, sendResp>>
  /\ ApiUnchanged

\* variant: a failed delivery puts the notification back at the tail
TaskDeliverRequeue(t, status) ==
  LET item == accepted[tasks[t].item] IN
  /\ tasks[t].pc = "post"
  /\ posting' = posting (-) SetToBag({item})
  /\ sent' = [sent EXCEPT ![item.id] = Append(@, PostRequest(item))]
  /\ lastStatus' = status
  /\ warned' = Warns(status)
  /\ atGet' = atGet + 1
  /\ queue' = IF Warns(status) /\ Len(sent[item.id]) = 0
                THEN Append(queue, item) ELSE queue
  /\ tasks' = [tasks EXCEPT ![t].pc = "get", ![t].item = 0,
                            ![t].log = Append(@, item.id)]
  /\ UNCHANGED <<permits, pending, blocked, timedOut, accepted, overlap,
                 sendResp>>
  /\ ApiUnchanged

\* the POST of the notification task t holds completes with a status or
\* raises; the task goes on to its next get
TaskDeliver(t, status) ==
  LET item == accepted[tasks[t].item] IN
  /\ tasks[t].pc = "post"
  /\ posting' = posting (-) SetToBag({item})
  /\ sent' = [sent EXCEPT ![item.id] = Append(@, PostRequest(item))]
  /\ lastStatus' = status
  /\ warned' = Warns(status)
  /\ atGet' = atGet + 1
  /\ tasks' = [tasks EXCEPT ![t].pc = "get", ![t].item = 0,
                            ![t].log = Append(@, item.id)]
  /\ UNCHANGED <<queue, permits, pending, blocked, timedOut, accepted,
                 overlap, sendResp>>
  /\ ApiUnchanged

TaskStep(t) ==
  \/ TaskSpawn(t)
  \/ TaskGet(t)
  \/ TaskWake(t)
  \/ TaskTimer(t)
  \/ TaskExit(t)
  \/ \E s \in Statuses : TaskDeliver(t, s)

TaskNext ==
  \/ /\ Len(accepted) < MaxItems
     /\ \E u \in Urls, b \in Bodies : send_webhook(u, b)
  \/ \E t \in TaskIds : TaskStep(t)

\* the webhook service with its worker tasks told apart
TaskSpec == Init /\ [][TaskNext]_vars

\* variant: a POST to a destination that never answers is never ended
FairnessUnlessHanging ==
  /\ WF_vars(SpawnAcquire)
  /\ WF_vars(SpawnTimeout)
  /\ WF_vars(WorkerGet)
  /\ WF_vars(WorkerWake)
  /\ WF_vars(TimerFire)
  /\ WF_vars(WorkerExit)

\* the event loop runs every task that is ready; requests to POST /send
\* come from outside and may stop at any time
Fairness ==
  /\ WF_vars(SpawnAcquire)
  /\ WF_vars(SpawnTimeout)
  /\ WF_vars(WorkerGet)
  /\ WF_vars(WorkerWake)
  /\ WF_vars(TimerFire)
  /\ WF_vars(WorkerExit)
  /\ WF_vars(Delivery)

FairSpec == Init /\ [][Next]_vars /\ Fairness

\* ------------------------------------------------------------------ claims
\* where notification i is
InQueue(i) == Cardinality({k \in DOMAIN queue : queue[k].id = i})
HeldSet(i) == {x \in BagToSet(posting) : x.id = i}
Held(i) == BagCardinality([x \in HeldSet(i) |-> posting[x]])
Attempted(i) == Len(sent[i])
Accepted == 1..Len(accepted)

\* C1: in every reachable state at most 5 workers hold a permit, and so at
\* most 5 delivery POSTs are in flight, whatever the number of enqueues
C1_AtMostFiveWorkers == Live <= NumPermits /\ InFlight <= NumPermits

\* five POSTs in flight while a further notification has been enqueued
C1_Witness == InFlight = NumPermits /\ Len(accepted) > NumPermits

\* C2: every accepted notification is in exactly one place (once in the
\* queue, held by one worker, or attempted), unchanged since it was enqueued,
\* and it leaves the queue only into the hands of one worker
C2_ExactlyOnePlace ==
  /\ [](\A i \in Accepted :
          /\ InQueue(i) + Held(i) + Attempted(i) = 1
          /\ \A k \in DOMAIN queue : queue[k].id = i => queue[k] = accepted[i]
          /\ \A x \in HeldSet(i) : x = accepted[i])
  /\ [][\A i \in Accepted :
          InQueue(i)' < InQueue(i) => Held(i)' = Held(i) + 1]_vars

\* a dequeue timed out, the worker has not resumed, and an item was enqueued
C2_Witness == timedOut > 0 /\ queue # <<>>

\* C3: when every worker has exited all 5 permits are free, and a
\* notification enqueued then (its spawn attempt pending) is attempted
C3_RespawnAfterIdle ==
  /\ [](Live = 0 => permits = NumPermits)
  /\ \A i \in Ids :
       (Live = 0 /\ pending > 0 /\ InQueue(i) = 1) ~> (Attempted(i) > 0)

\* a worker delivered and exited, nobody is live, and a new item is queued
\* with its spawn attempt pending
C3_Witness ==
  /\ Live = 0 /\ permits = NumPermits
  /\ Attempted(1) = 1
  /\ pending > 0 /\ queue # <<>>

\* C4: no notification stays in the queue with no active worker: while a
\* notification is queued the webhook service has a step to take (a spawn
\* attempt still to run, or a worker that has not exited), so that fair
\* scheduling gets every enqueued notification attempted
C4_NeverStranded ==
  queue # <<>> => ENABLED (SpawnAcquire \/ SpawnTimeout \/ WorkerStep)

\* C5: notifications are dequeued in enqueue order, and while no two
\* workers have been live together the attempts follow that order too
C5_Fifo ==
  /\ \A k \in DOMAIN queue :
       queue[k].id = Len(accepted) - Len(queue) + k
  /\ \A i \in Accepted :
       i <= Len(accepted) - Len(queue) => Held(i) + Attempted(i) >= 1
  /\ ~overlap =>
       \A i, j \in Accepted : i < j /\ Attempted(j) > 0 => Attempted(i) > 0

\* one worker alone has attempted three notifications
C5_Witness ==
  /\ ~overlap
  /\ Len(accepted) >= 3
  /\ \A i \in 1..3 : Attempted(i) = 1

\* C6: whatever the outcome of a delivery, the worker goes back to the
\* dequeue step: it keeps its permit and leaves the queue as it is
C6_FailureKeepsWorker ==
  [][BagCardinality(posting') < BagCardinality(posting) =>
       /\ atGet' = atGet + 1
       /\ permits' = permits
       /\ queue' = queue
       /\ Live' = Live]_vars

\* the only worker has just failed a delivery and is about to dequeue the
\* next queued notification
C6_Witness ==
  /\ lastStatus \in {"500", "exc"}
  /\ warned
  /\ Live = 1 /\ atGet = 1
  /\ queue # <<>>

\* C7: a notification is POSTed at most once, and once attempted it is
\* neither in the queue nor in a worker's hands again
C7_AtMostOnePost ==
  \A i \in Ids :
    /\ Attempted(i) <= 1
    /\ Attempted(i) > 0 => InQueue(i) = 0 /\ Held(i) = 0

\* a delivery failed and its notification is gone
C7_Witness ==
  /\ lastStatus = "exc"
  /\ Live = 1 /\ atGet = 1
  /\ queue = <<>> /\ Attempted(1) = 1

\* C8: enqueue is enabled whatever the queue, workers and permits are; it
\* appends the notification at the tail and changes neither the entries
\* already queued nor the permits nor any worker
C8_EnqueueFrame ==
  /\ [](Len(accepted) < MaxEnq =>
          ENABLED (\E u \in Urls, b \in Bodies : send_webhook(u, b)))
  /\ [][Len(accepted') > Len(accepted) =>
          /\ queue' = Append(queue, accepted'[Len(accepted')])
          /\ permits' = permits
          /\ pending' = pending + 1
          /\ <<atGet, blocked, timedOut, posting>>' =
               <<atGet, blocked, timedOut, posting>>]_vars

\* an enqueue was accepted while all permits were held and items queued
C8_Witness == permits = 0 /\ Len(queue) >= 2 /\ pending > 0

\* POSTs issued with the given body for notifications of the user's events
PostsFrom(user, body) ==
  Cardinality({i \in Ids : /\ Attempted(i) > 0
                           /\ origin[i] = user
                           /\ sent[i][1].body = body})

\* C9: a link event of a user who has no registered webhook at that moment
\* enqueues nothing and hands nothing off, every accepted notification stems
\* from a user who had registered a webhook, and POSTs are issued for
\* accepted notifications only
C9_NoHookNoNotification ==
  /\ [](/\ \A i \in Accepted : origin[i] \in hadHook
        /\ \A i \in Ids : Attempted(i) > 0 => i \in Accepted
        /\ last.hook = NoHook => last.handoff = "none")
  /\ [][\A u \in Users :
          webhooks[u] = NoHook /\ requests' > requests /\ last'.owner = u
            => /\ accepted' = accepted
               /\ queue' = queue
               /\ pending' = pending
               /\ last'.handoff = "none"]_vars

\* a user without a webhook has created and deleted a link while another
\* user has a webhook registered, and nothing was enqueued
C9_Witness ==
  /\ last.op = "delete" /\ last.status = 200
  /\ webhooks[last.user] = NoHook
  /\ \E u \in Users : webhooks[u] # NoHook
  /\ \E k \in Keys, t \in Targets : okCreates[<<last.user, k, t>>] = 1
  /\ accepted = <<>>

\* C10: a user who has created a link successfully once gets exactly one
\* "created" POST for it: the POSTs with body created(key, target) issued
\* for that user's events are at most one
C10_OneCreatedPost ==
  \A u \in Users, k \in Keys, t \in Targets :
    okCreates[<<u, k, t>>] = 1 => PostsFrom(u, link_created(k, t)) <= 1

\* C14: a delivery that ends with a 2xx status logs no warning, a delivery
\* that ends with another status or a transport error logs one, and the POST
\* issued for a notification carries its destination and its body
C14_SuccessIsAny2xx ==
  /\ lastStatus \in {"200", "204"} => ~warned
  /\ lastStatus \in {"500", "exc"} => warned
  /\ \A i \in Accepted : \A n \in DOMAIN sent[i] :
       sent[i][n] = [url |-> accepted[i].url, body |-> accepted[i].body]

\* what a link request answers and leaves in the tables, computed from the
\* request and the tables alone
Outcome(op, user, key, raw, country) ==
  CASE op = "create" ->
         IF urls[key] # NoUrl THEN <<409, urls, usages>>
         ELSE <<201, [urls EXCEPT ![key] =
                        [owner |-> user, target |-> HttpUrlStr(raw)]], usages>>
    [] op = "update" ->
         IF Owns(user, key)
           THEN <<200, [urls EXCEPT ![key].target = HttpUrlStr(raw)], usages>>
           ELSE <<404, urls, usages>>
    [] op = "delete" ->
         IF ~Owns(user, key) THEN <<404, urls, usages>>
         ELSE IF HasUsage(key) THEN <<500, urls, usages>>
         ELSE <<200, [urls EXCEPT ![key] = NoUrl], usages>>
    [] op = "redirect" ->
         IF urls[key] = NoUrl THEN <<404, urls, usages>>
         ELSE <<308, urls, [usages EXCEPT ![<<key, country>>] = @ + 1]>>

\* C12: the status a create, update, delete or redirect answers and the
\* tables it leaves are a function of the request and the tables before it,
\* whatever the webhook lookup and hand-off did; and a delivery, whatever
\* its outcome, changes neither the tables nor an answer
C12_WebhookInvisible ==
  /\ [][requests' > requests
          /\ last'.op \in {"create", "update", "delete", "redirect"}
        => <<last'.status, urls', usages'>>
             = Outcome(last'.op, last'.user, last'.key, arg', arg')]_vars
  /\ [][sent' # sent => UNCHANGED <<urls, usages, webhooks, last>>]_vars

\* a create was answered 201 although its hand-off was refused, and an
\* earlier notification's delivery failed
C12_Witness ==
  /\ last.op = "create" /\ last.status = 201
  /\ last.handoff = "refused"
  /\ urls[last.key] # NoUrl
  /\ warned

\* C15: a redirect, delete or update of a link whose owner has a webhook
\* enqueues, when the hand-off is accepted, one notification addressed to the
\* owner's webhook URL with the body of the event: {redirect, key},
\* {deleted, key, target} for a delete, {deleted, key, new_target} for an
\* update
C15_EventBodies ==
  [][requests' > requests /\ last'.op \in {"redirect", "delete", "update"}
     => /\ (last'.hook # NoHook /\ last'.handoff = "enqueued")
             <=> Len(accepted') = Len(accepted) + 1
        /\ Len(accepted') > Len(accepted) =>
             LET n == accepted'[Len(accepted')]
                 k == last'.key IN
             /\ n.url = webhooks[last'.owner]
             /\ n.body =
                  CASE last'.op = "redirect" -> [action |-> "redirect", key |-> k]
                    [] last'.op = "delete" ->
                         [action |-> "deleted", key |-> k,
                          target |-> urls[k].target]
                    [] last'.op = "update" ->
                         [action |-> "deleted", key |-> k,
                          new_target |-> urls'[k].target]]_vars

\* an update by an owner with a webhook has enqueued its notification
C15_Witness ==
  /\ last.op = "update" /\ last.status = 200
  /\ accepted # <<>>
  /\ accepted[Len(accepted)].url = webhooks[last.user]
  /\ accepted[Len(accepted)].body =
       [action |-> "deleted", key |-> last.key,
        new_target |-> urls[last.key].target]

\* C16: a create is answered 201 exactly when its key is in no row, whoever
\* owns it, and then stores the row for the caller; otherwise it is answered
\* 409 and the table is as before.  A create changes no other key
C16_KeysUnique ==
  [][requests' > requests /\ last'.op = "create"
     => LET k == last'.key IN
        /\ last'.status = (IF urls[k] = NoUrl THEN 201 ELSE 409)
        /\ urls[k] # NoUrl => urls' = urls
        /\ urls[k] = NoUrl =>
             /\ urls'[k].owner = last'.user
             /\ \A j \in Keys \ {k} : urls'[j] = urls[j]]_vars

\* a create of a key that another user owns was answered 409
C16_Witness ==
  /\ last.op = "create" /\ last.status = 409
  /\ urls[last.key] # NoUrl
  /\ urls[last.key].owner # last.user

\* C17: an update or delete of an existing key by a user who is not its
\* owner is answered 404 and leaves the table as it is
C17_OnlyOwnerChanges ==
  [][requests' > requests /\ last'.op \in {"update", "delete"}
       /\ urls[last'.key] # NoUrl /\ urls[last'.key].owner # last'.user
     => last'.status = 404 /\ urls' = urls /\ usages' = usages]_vars

\* a delete by a user who does not own the key was answered 404 and the
\* link is still there
C17_Witness ==
  /\ last.op = "delete" /\ last.status = 404
  /\ urls[last.key] # NoUrl
  /\ urls[last.key].owner # last.user

\* C18: in every state GET /urls of a user lists exactly the keys of the
\* rows that user owns, each once, in ascending key order, each with the
\* stored target; after a successful create or update the caller's list
\* holds the key with the target just sent, and after a successful delete
\* the key is in nobody's list
C18_ListOwnLinks ==
  /\ [](\A u \in Users :
          LET L == get_all_url(u) IN
          /\ {L[i].key : i \in DOMAIN L}
               = {k \in Keys : urls[k] # NoUrl /\ urls[k].owner = u}
          /\ \A i, j \in DOMAIN L : i < j => KeyRank[L[i].key] < KeyRank[L[j].key]
          /\ \A i \in DOMAIN L : L[i].target = urls[L[i].key].target)
  /\ [][\A u \in Users :
          requests' > requests /\ last'.user = u
          => /\ last'.op \in {"create", "update"} /\ last'.status \in {200, 201}
                  => \E i \in DOMAIN get_all_url(u)' :
                       get_all_url(u)'[i]
                         = [key |-> last'.key, target |-> HttpUrlStr(arg')]
             /\ last'.op = "delete" /\ last'.status = 200
                  => \A v \in Users : \A i \in DOMAIN get_all_url(v)' :
                       get_all_url(v)'[i].key # last'.key]_vars

\* a user owns two links, the other user's list is empty, and the last
\* request updated the target of one of them
C18_Witness ==
  /\ last.op = "update" /\ last.status = 200
  /\ Len(get_all_url(last.user)) = 2
  /\ get_all_url(last.user)[1].key = "abc"
  /\ \E i \in 1..2 : get_all_url(last.user)[i] =
        [key |-> last.key, target |-> HttpUrlStr(arg)]

\* C20: GET /webhooks of a user answers 404 while the user has no row (never
\* set, or deleted) and otherwise the URL of the user's most recent set; a
\* set replaces the user's row, a delete removes it, and a user's row
\* changes only by that user's own set or delete
C20_OneWebhookPerUser ==
  /\ [](\A u \in Users :
          /\ u \notin hadHook => get_webhook(u).status = 404
          /\ get_webhook(u).status = 200 => get_webhook(u).url \in
               {HttpUrlStr(h) : h \in Hooks})
  /\ [][\A u \in Users :
          /\ requests' > requests /\ last'.user = u
                /\ last'.op = "set_webhook"
              => get_webhook(u)' = [status |-> 200, url |-> HttpUrlStr(arg')]
          /\ requests' > requests /\ last'.user = u
                /\ last'.op = "delete_webhook"
              => get_webhook(u)'.status = 404
          /\ get_webhook(u)' # get_webhook(u)
              => /\ requests' > requests /\ last'.user = u
                 /\ last'.op \in {"set_webhook", "delete_webhook"}]_vars

\* a user who had a webhook has set another one while the other user keeps
\* theirs
C20_Witness ==
  /\ last.op = "set_webhook" /\ arg = "hookB"
  /\ get_webhook(last.user) = [status |-> 200, url |-> "hookB/"]
  /\ \E v \in Users \ {last.user} : get_webhook(v).url = "hookA"

\* C13: POST /send can be answered in every state, whatever the permits and
\* workers are; it answers 200 in the step that puts the notification in
\* the queue, when its spawn attempt has not run and nothing of it has been
\* delivered, and no later step of a worker changes that answer
C13_SendAnswersAtOnce ==
  /\ [](Len(accepted) < MaxEnq =>
          \A u \in Urls, b \in Bodies : ENABLED send_webhook(u, b))
  /\ [](sendResp = (IF accepted = <<>> THEN 0 ELSE 200))
  /\ [][\A i \in Ids :
          Len(accepted) < i /\ Len(accepted') = i
          => /\ sendResp' = 200
             /\ InQueue(i)' = 1 /\ Held(i)' = 0 /\ Attempted(i)' = 0
             /\ pending' = pending + 1
             /\ permits' = permits /\ Live' = Live /\ sent' = sent]_vars

\* POST /send has been answered while all five workers are inside a POST,
\* no permit is free and the new notification waits in the queue
C13_Witness ==
  /\ sendResp = 200
  /\ permits = 0 /\ InFlight = NumPermits
  /\ pending > 0
  /\ InQueue(Len(accepted)) = 1

\* notifications with the given body that are queued, held or attempted
NotificationsWith(body) ==
  Cardinality({i \in Accepted :
    accepted[i].body = body /\ InQueue(i) + Held(i) + Attempted(i) > 0})

\* redirect requests of the key whose hand-off the webhook service accepted
HandedOff(key) ==
  {r \in Slots : /\ reqs[r].pc \in {"notified", "done"}
                 /\ reqs[r].key = key
                 /\ reqs[r].handoff = "enqueued"}

Visits(key, country) ==
  Cardinality({r \in Slots : /\ reqs[r].pc = "done" /\ reqs[r].status = 308
                             /\ reqs[r].key = key
                             /\ reqs[r].country = country})

\* C19: for every key and country the stored count is the number of
\* redirects of the key answered 308 for that country, also when redirects
\* of the key run concurrently, and the owner's statistic reports exactly
\* these counts, one entry per country that was counted
C19_CountsMatchRedirects ==
  /\ \A k \in Keys, c \in Countries : usages[<<k, c>>] = Visits(k, c)
  /\ \A u \in Users, k \in Keys :
       Owns(u, k) =>
         LET st == get_url_statistic(u, k) IN
         /\ st.status = 200
         /\ \A c \in Countries :
              Cardinality({i \in DOMAIN st.data : st.data[i].country = c})
                = (IF Visits(k, c) > 0 THEN 1 ELSE 0)
         /\ \A i \in DOMAIN st.data :
              st.data[i].count = Visits(k, st.data[i].country)

\* a redirect has written the count 1 inside its open transaction and a
\* second redirect of the same key and country has found the link and waits
\* for the row
C19_Witness ==
  \E r, q \in Slots :
    /\ r # q
    /\ reqs[r].pc = "notified" /\ reqs[r].count = 1
    /\ reqs[q].pc = "found"
    /\ reqs[q].key = reqs[r].key /\ reqs[q].country = reqs[r].country
    /\ usages[<<reqs[r].key, reqs[r].country>>] = 0

\* C21: DELETE /webhooks answers 200 whether or not the user has a webhook;
\* afterwards GET /webhooks of the user answers 404; a delete by a user
\* without a webhook changes no table, so a second delete leaves the state
\* of the first
C21_DeleteWebhookIdempotent ==
  [][\A u \in Users :
       requests' > requests /\ last'.op = "delete_webhook" /\ last'.user = u
         => /\ last'.status = 200
            /\ get_webhook(u)'.status = 404
            /\ webhooks[u] = NoHook
                 => UNCHANGED <<webhooks, urls, usages, queue, accepted>>
            /\ \A v \in Users \ {u} : webhooks'[v] = webhooks[v]]_vars

\* a user who never set a webhook has deleted it and got 200
C21_Witness ==
  /\ last.op = "delete_webhook" /\ last.status = 200
  /\ last.user \notin hadHook
  /\ get_webhook(last.user).status = 404
  /\ \E v \in Users : webhooks[v] # NoHook

\* C22: a request to an authenticated endpoint with no credentials, or with
\* credentials that do not verify, is answered 403, and the links, the
\* analytics, the webhook registry and the notification queue are as before
C22_RejectedChangesNothing ==
  [][\A cred \in {"none", "garbage", "expired"} :
       AuthRequest(cred)
         => /\ last'.status = 403
            /\ UNCHANGED <<urls, usages, webhooks, queue, accepted, pending>>]_vars

\* a request was rejected while a link and a webhook were stored
C22_Witness ==
  /\ last.status = 403 /\ last.user = "nobody"
  /\ \E k \in Keys : urls[k] # NoUrl
  /\ \E u \in Users : webhooks[u] # NoHook

\* C23: after any sequence of requests GET /statistic reports as n_links the
\* number of links stored, which is what the users' lists hold together and
\* the number of keys that have an owner, and as n_user the number of users
\* who own at least one stored link
C23_StatisticCounts ==
  /\ statistic.n_links = Len(get_all_url("alice")) + Len(get_all_url("bob"))
  /\ statistic.n_user = Cardinality({u \in Users : Len(get_all_url(u)) > 0})
  /\ statistic.n_links = Cardinality({k \in Keys : \E u \in Users : Owns(u, k)})

\* one user owns two links: two links, one user
C23_Witness ==
  /\ statistic = [n_links |-> 2, n_user |-> 1]
  /\ last.op = "create" /\ last.status = 201

\* C24: a redirect that finds its link is counted under the country named
\* in the IP service's response only when the request has an address and
\* the service answered 200 with a country field; with any other status,
\* with a body without a country, or with no client address, it is counted
\* under "unknown"
C24_CountryOrUnknown ==
  [][\A k \in Keys, f \in ForwardedFor, c \in ClientHosts, r \in IpResponses,
        h \in HandOffs :
       redirect_from(k, f, c, r, h) /\ last'.status = 308
         => LET named == /\ f # "none" \/ c # "none"
                         /\ r.status = 200
                         /\ "country" \in DOMAIN r.body
                country == IF named THEN r.body.country ELSE "unknown"
            IN usages' = [usages EXCEPT ![<<k, country>>] = @ + 1]]_vars

\* redirects of one link were counted under a country and under "unknown"
C24_Witness ==
  /\ last.op = "redirect" /\ last.status = 308
  /\ usages[<<last.key, "ID">>] > 0
  /\ usages[<<last.key, "unknown">>] > 0

\* C25: in every state the free permits and the live workers add up to 5
\* and no more than 5 permits are free; the permit count changes only when
\* a worker starts (one permit less, one worker more) or ends, by the idle
\* timeout or by cancellation (one permit more, one worker less), and not
\* when a worker takes or delivers an item
C25_PermitsPlusWorkers ==
  /\ [](permits + Live = NumPermits /\ permits \in 0..NumPermits)
  /\ [][/\ permits' # permits
             => \/ permits' = permits - 1 /\ Live' = Live + 1
                \/ permits' = permits + 1 /\ Live' = Live - 1
        /\ (sent' # sent \/ queue' # queue) => permits' = permits]_vars

\* a worker was cancelled inside a delivery (its notification is in no
\* place any more), two notifications were delivered, and one worker is
\* live on one permit
C25_Witness ==
  /\ \E i \in Accepted : InQueue(i) + Held(i) + Attempted(i) = 0
  /\ Live = 1 /\ permits = NumPermits - 1
  /\ Cardinality({i \in Accepted : Attempted(i) = 1}) >= 2

\* C26: a spawn attempt that runs while all 5 permits are held ends without
\* a worker: the queue, the permit count, the workers and what they hold
\* and have sent are unchanged, and the answer the enqueuer got stays 200;
\* the attempt can always end this way
C26_FailedSpawnFrame ==
  /\ [](pending > 0 /\ permits = 0 => ENABLED SpawnTimeout)
  /\ [][pending' < pending /\ permits = 0
          => /\ pending' = pending - 1
             /\ UNCHANGED <<queue, permits, atGet, blocked, timedOut, posting,
                            accepted, sent>>
             /\ Live' = Live
             /\ sendResp = 200 /\ sendResp' = 200]_vars

\* all 5 workers have timed out on the empty queue and still hold their
\* permits; the notification enqueued then is queued and its spawn attempt
\* has ended without a worker
C26_Witness == queue # <<>> /\ pending = 0 /\ timedOut = NumPermits

C28_DrainsAndRests ==
  <>[](queue = <<>> /\ Live = 0 /\ permits = NumPermits)

\* C29: a spawn attempt is scheduled exactly when a notification is
\* enqueued, one per notification, and in that step the notification is
\* already in the queue; every scheduled attempt runs once, on its own step
\* after the put, and either starts one worker on one permit or ends with
\* nothing changed; there are never more attempts waiting than
\* notifications accepted
C29_OneSpawnPerEnqueue ==
  /\ [](pending <= Len(accepted))
  /\ [][/\ (Len(accepted') = Len(accepted) + 1) <=> (pending' = pending + 1)
        /\ Len(accepted') # Len(accepted)
             => /\ Len(accepted') = Len(accepted) + 1
                /\ \A i \in Ids : i = Len(accepted') => InQueue(i)' = 1
                /\ permits' = permits /\ Live' = Live
        /\ (pending' # pending /\ accepted' = accepted)
             => /\ pending' = pending - 1
                /\ queue' = queue
                /\ \/ permits' = permits - 1 /\ atGet' = atGet + 1
                   \/ permits' = permits /\ Live' = Live
        /\ Live' > Live => pending' = pending - 1]_vars

\* two notifications were enqueued, both spawn attempts have run and started
\* a worker each, and both notifications are in the queue for them
C29_Witness ==
  /\ Len(accepted) = 2 /\ pending = 0
  /\ atGet = 2 /\ Len(queue) = 2

\* C30: while a worker is inside a delivery, a notification can be enqueued,
\* a worker at its get can take the next queued notification, a suspended
\* getter can be woken by a queued notification, and every other delivery
\* in flight can complete; the completion of one delivery leaves the other
\* held notifications and the queue as they are
C30_DeliveryBlocksNobody ==
  /\ [](InFlight >= 1 =>
          /\ Len(accepted) < MaxEnq =>
               ENABLED (\E u \in Urls, b \in Bodies : send_webhook(u, b))
          /\ atGet > 0 => ENABLED WorkerGet
          /\ (blocked > 0 /\ queue # <<>>) => ENABLED WorkerWake
          /\ \A item \in BagToSet(posting), s \in Statuses :
               ENABLED Deliver(item, s))
  /\ [][\A i \in Ids :
          Attempted(i)' > Attempted(i)
            => /\ queue' = queue
               /\ \A j \in Ids \ {i} :
                    Held(j)' = Held(j) /\ Attempted(j)' = Attempted(j)]_vars

\* the worker holding the first notification is still inside its delivery
\* while the second and the third have been delivered, and a further
\* notification is queued for the other worker, which is at its get
C30_Witness ==
  /\ Held(1) = 1
  /\ Attempted(2) = 1 /\ Attempted(3) = 1
  /\ atGet >= 1 /\ queue # <<>>
  /\ Live = 2

\* the number of named tasks at a position
TasksAt(pc) == Cardinality({t \in TaskIds : tasks[t].pc = pc})

\* C31: the notifications one worker task has attempted are in enqueue
\* order (each was enqueued after the one the task attempted before it) and
\* the notification the task holds was enqueued after all it has attempted
C31_PerWorkerOrder ==
  /\ \A t \in TaskIds :
       LET log == tasks[t].log IN
       /\ \A a, b \in DOMAIN log : a < b => log[a] < log[b]
       /\ \A a \in DOMAIN log : Attempted(log[a]) = 1
       /\ tasks[t].pc = "post"
            => /\ Held(tasks[t].item) = 1
               /\ \A a \in DOMAIN log : log[a] < tasks[t].item
  /\ TasksAt("get") = atGet /\ TasksAt("wait") = blocked
  /\ TasksAt("timeout") = timedOut /\ TasksAt("post") = InFlight

\* across workers the attempts are not in enqueue order: one task has
\* attempted the second and the third notification while the other is
\* still inside the delivery of the first
C31_Witness ==
  \E t, u \in TaskIds :
    /\ t # u
    /\ tasks[t].log = <<2, 3>>
    /\ tasks[u].pc = "post" /\ tasks[u].item = 1

C33_FixedWhenEnqueued ==
  /\ [](\A i \in Accepted :
          /\ \A k \in DOMAIN queue : queue[k].id = i => queue[k] = accepted[i]
          /\ \A x \in HeldSet(i) : x = accepted[i]
          /\ Attempted(i) > 0 => sent[i][1] = PostRequest(accepted[i]))
  /\ [][/\ \A i \in Accepted : accepted'[i] = accepted[i]
        /\ \A i \in Ids :
             (i \notin Accepted /\ Len(accepted') >= i)
               => /\ origin'[i] \in Users
                  /\ webhooks[origin'[i]] # NoHook
                  /\ accepted'[i].url = webhooks[origin'[i]]
        /\ webhooks' # webhooks
             => UNCHANGED <<queue, accepted, posting, sent, pending>>
        /\ \A u \in Users :
             (u \in hadHook /\ webhooks[u] = NoHook
                /\ requests' > requests /\ last'.owner = u)
               => accepted' = accepted /\ queue' = queue]_vars

\* a notification went to the URL its owner had registered when the event
\* happened although the owner has deleted the webhook since
C33_Witness ==
  \E i \in Accepted :
    /\ Attempted(i) = 1
    /\ sent[i][1].url = accepted[i].url
    /\ webhooks[origin[i]] = NoHook
    /\ last.op = "delete_webhook"

\* C34: while the queue is non-empty some worker is live that has not yet
\* timed out on the queue (it is at its get, suspended in it, or inside a
\* delivery), or a spawn attempt is still pending
C34_QueuedHasTaker ==
  queue # <<>> => (atGet + blocked + InFlight > 0 \/ pending > 0)

\* C35: a create request that is answered 409 enqueues no notification and
\* hands nothing off; a "created" notification is accepted only in the step
\* of a create request that is answered 201
C35_CreatedOnlyWhenCommitted ==
  [][/\ (requests' > requests /\ last'.op = "create" /\ last'.status = 409)
          => accepted' = accepted /\ last'.handoff = "none"
     /\ \A i \in Ids :
          (Len(accepted) < i /\ Len(accepted') >= i
             /\ accepted'[i].body.action = "created")
            => last'.op = "create" /\ last'.status = 201]_vars

\* C36: an update or a delete of a key that is missing or owned by another
\* user, and a redirect of a missing key, are answered 404; a request
\* answered 404 leaves the links, the analytics rows and the webhooks as
\* they are and enqueues and hands off nothing
C36_NotFoundChangesNothing ==
  [][/\ \A u \in Users, k \in Keys, t \in RawTargets, h \in HandOffs :
          /\ (update_url(u, k, t, h) /\ ~Owns(u, k)) => last'.status = 404
          /\ (delete_url(u, k, h) /\ ~Owns(u, k)) => last'.status = 404
     /\ \A k \in Keys, c \in Countries, h \in HandOffs :
          (redirect(k, c, h) /\ urls[k] = NoUrl) => last'.status = 404
     /\ (requests' > requests /\ last'.status = 404)
          => /\ UNCHANGED <<urls, usages, webhooks, queue, accepted, pending>>
             /\ last'.handoff = "none"]_vars

\* a user with a registered webhook got 404 for the update of a link that
\* another user owns, and nothing was enqueued
C36_Witness ==
  /\ last.op = "update" /\ last.status = 404
  /\ webhooks[last.user] # NoHook
  /\ urls[last.key] # NoUrl /\ urls[last.key].owner # last.user
  /\ accepted = <<>>

\* C37: a delete of a link by its owner is answered 200 and removes the
\* link, whether or not redirects of the key have been counted, and every
\* analytics row belongs to a stored link
C37_DeleteWithUsage ==
  /\ [](\A k \in Keys : HasUsage(k) => urls[k] # NoUrl)
  /\ [][\A u \in Users, k \in Keys, h \in HandOffs :
          (delete_url(u, k, h) /\ Owns(u, k))
            => last'.status = 200 /\ urls'[k] = NoUrl]_vars

====
